---- MODULE Spec2Model ----
(***************************************************************************)
(* A model of stateful_registers/register_state.py: RegisterValue,         *)
(* MultiRegisterValue and RegisterState (construction, read_state,         *)
(* write_state) over an abstract transport that stores words per address.  *)
(* Spec drives one RegisterState, SpecConstruct constructs one from every  *)
(* small layout, SpecObjects keeps the objects of several RegisterStates   *)
(* and of their template by identity.                                      *)
(***************************************************************************)
EXTENDS Integers, Sequences, FiniteSets, TLC

VARIABLES
    tmpl,     \* the constructor's arguments: registers, multi-registers, register_size
    built,    \* "new" before __init__, then "ok" or the exception __init__ raised
    cache,    \* RegisterValue._value of the object's own copies, by name
    dev,      \* the peripheral's words, by address
    call,     \* the last call made on the object
    result,   \* "ok" or the exception the last call raised
    ret,      \* what the last call returned (read_state: the address -> raw word map)
    ops,      \* the transport operations the last call issued, in order
    pre,      \* cache and dev as they were when the last call started
    pc,       \* the caller: "idle", or "returned" while it holds a call's outcome
    ncalls,   \* the number of calls made so far
    heap,     \* the RegisterValue and MultiRegisterValue objects, by identity
    files,    \* the RegisterStates constructed from the template, in order
    transport \* the attributes a transport subclass adds to the RegisterState

vars == <<tmpl, built, cache, dev, call, result, ret, ops, pre, pc, ncalls, heap, files,
          transport>>

----------------------------------------------------------------------------
(* Bounds of the model *)

MaxCalls == 1       \* calls made on one object
MaxRequest == 2     \* length of a list of registers passed to a call
MaxFail == 2        \* the transport fails at its k-th operation, k in 1..MaxFail
MaxOffset == 2      \* offsets of the fields of the construction templates
MaxBits == 2        \* widths of the fields of the construction templates
MaxFiles == 2       \* RegisterStates constructed from one template

----------------------------------------------------------------------------
(* Python values *)

\* an optional value: None is the empty tuple, a value v is <<v>>
None == <<>>
Some(v) == <<v>>
IsNone(x) == x = <<>>
Val(x) == x[1]

Pow2(n) == 2 ^ n

\* Python's & and | on unbounded two's-complement integers
RECURSIVE BitAnd(_, _)
BitAnd(x, y) ==
    IF x = 0 \/ y = 0 THEN 0
    ELSE IF x = -1 THEN y
    ELSE IF y = -1 THEN x
    ELSE (IF x % 2 = 1 /\ y % 2 = 1 THEN 1 ELSE 0) + 2 * BitAnd(x \div 2, y \div 2)

RECURSIVE BitOr(_, _)
BitOr(x, y) ==
    IF x = 0 THEN y
    ELSE IF y = 0 THEN x
    ELSE IF x = -1 \/ y = -1 THEN -1
    ELSE (IF x % 2 = 1 \/ y % 2 = 1 THEN 1 ELSE 0) + 2 * BitOr(x \div 2, y \div 2)

Shl(x, n) == x * Pow2(n)
Shr(x, n) == x \div Pow2(n)

\* ~x
BitNot(x) == -x - 1

Range(s) == {s[i] : i \in 1 .. Len(s)}

RECURSIVE SetToSeq(_)
SetToSeq(S) ==
    IF S = {} THEN <<>>
    ELSE LET x == CHOOSE y \in S : \A z \in S : y <= z
         IN <<x>> \o SetToSeq(S \ {x})

Min(S) == CHOOSE x \in S : \A y \in S : x <= y
Max(S) == CHOOSE x \in S : \A y \in S : x >= y

----------------------------------------------------------------------------
(* RegisterValue and MultiRegisterValue *)

RegisterValue(name, address, offset, nbits, writeable) ==
    [name |-> name, address |-> address, offset |-> offset, nbits |-> nbits,
     writeable |-> writeable]

MultiRegisterValue(name, registers) == [name |-> name, registers |-> registers]

bitmask(reg) == Shl(Pow2(reg.nbits) - 1, reg.offset)

----------------------------------------------------------------------------
(* RegisterState.__init__ and _update_registers *)

\* list.sort(key=offset): a stable insertion sort
RECURSIVE InsertByOffset(_, _)
InsertByOffset(sorted, reg) ==
    IF sorted = <<>> THEN <<reg>>
    ELSE IF Head(sorted).offset <= reg.offset
         THEN <<Head(sorted)>> \o InsertByOffset(Tail(sorted), reg)
         ELSE <<reg>> \o sorted

RECURSIVE SortByOffset(_)
SortByOffset(regs) ==
    IF regs = <<>> THEN <<>>
    ELSE InsertByOffset(SortByOffset(SubSeq(regs, 1, Len(regs) - 1)), regs[Len(regs)])

\* addr_to_regs_temp: the addresses in the order of their first field
RECURSIVE AddrOrder(_)
AddrOrder(regs) ==
    IF regs = <<>> THEN <<>>
    ELSE LET front == AddrOrder(SubSeq(regs, 1, Len(regs) - 1))
             a == regs[Len(regs)].address
         IN IF a \in Range(front) THEN front ELSE Append(front, a)

\* _addr_to_regs[addr]: the fields at addr, sorted by offset
addr_to_regs(regs, addr) ==
    SortByOffset(SelectSeq(regs, LAMBDA r : r.address = addr))

\* the fold of the bitmasks of one address: <<overlap found, bits_set>>
RECURSIVE FoldMasks(_, _)
FoldMasks(regs, bits_set) ==
    IF regs = <<>> THEN <<FALSE, bits_set>>
    ELSE IF BitAnd(bitmask(Head(regs)), bits_set) # 0 THEN <<TRUE, bits_set>>
    ELSE FoldMasks(Tail(regs), BitOr(bits_set, bitmask(Head(regs))))

\* a slip in the word-size test: > for >=
ValidateAddressOffByOne(regs, addr, register_size) ==
    LET fold == FoldMasks(addr_to_regs(regs, addr), 0)
    IN IF fold[1] THEN "ValueError"
       ELSE IF fold[2] > Pow2(register_size) THEN "ValueError"
       ELSE "ok"

ValidateAddress(regs, addr, register_size) ==
    LET fold == FoldMasks(addr_to_regs(regs, addr), 0)
    IN IF fold[1] THEN "ValueError"
       ELSE IF fold[2] >= Pow2(register_size) THEN "ValueError"
       ELSE "ok"

\* the outcome of _update_registers: the first address that fails raises
RECURSIVE ValidateAll(_, _, _)
ValidateAll(regs, addrs, register_size) ==
    IF addrs = <<>> THEN "ok"
    ELSE IF ValidateAddress(regs, Head(addrs), register_size) # "ok" THEN "ValueError"
    ELSE ValidateAll(regs, Tail(addrs), register_size)

FieldNames(t) == {t.registers[i].name : i \in 1 .. Len(t.registers)}
MultiNames(t) == {t.multiregs[i].name : i \in 1 .. Len(t.multiregs)}

\* re-linking a multi-register looks each of its registers up by name
Relinked(t) ==
    \A i \in 1 .. Len(t.multiregs) : Range(t.multiregs[i].registers) \subseteq FieldNames(t)

update_registers(t) ==
    IF ~Relinked(t) THEN "KeyError"
    ELSE ValidateAll(t.registers, AddrOrder(t.registers), t.register_size)

RegisterState_init(t) == update_registers(t)

\* r.copy() keeps the _value of the template's RegisterValue (None unless the
\* caller assigned the template a value)
InitialCache(t) == [n \in FieldNames(t) |-> t.values[n]]

Reg(t, name) == t.registers[CHOOSE i \in 1 .. Len(t.registers) : t.registers[i].name = name]
Multi(t, name) == t.multiregs[CHOOSE i \in 1 .. Len(t.multiregs) : t.multiregs[i].name = name]
MappedAddrs(t) == Range(AddrOrder(t.registers))

\* the peripheral holds a word at every address up to the highest mapped one
Addrs(t) == 0 .. Max(MappedAddrs(t))

----------------------------------------------------------------------------
(* The transport: _read_register and _write_register *)
(* A call in progress is a record st: the caches, the peripheral's words,  *)
(* the transport operations issued so far, the exception raised so far     *)
(* ("ok" while none), the operation at which the transport fails (0 for    *)
(* never), the last raw_values of _read_raw as <<address, word>> pairs in  *)
(* dict order, and the map read_state returns.                             *)

EmptyMap == [a \in {} |-> 0]

Start(c, d, failAt) ==
    [cache |-> c, dev |-> d, ops |-> <<>>, status |-> "ok", fail |-> failAt,
     raw |-> <<>>, ret |-> EmptyMap]

Raise(st, exc) == IF st.status = "ok" THEN [st EXCEPT !.status = exc] ELSE st

ReadOp(address, ntimes) ==
    [op |-> "read", address |-> address, ntimes |-> ntimes, value |-> None]
WriteOp(address, value) ==
    [op |-> "write", address |-> address, ntimes |-> None, value |-> Some(value)]

Fails(st) == st.fail = Len(st.ops) + 1

\* a slip that retries a failed read once before giving up
read_registerRetry(st, address, ntimes) ==
    IF st.status # "ok" THEN st
    ELSE IF Fails(st)
         THEN [st EXCEPT !.ops = @ \o <<ReadOp(address, ntimes), ReadOp(address, ntimes)>>,
                         !.status = "TransportError"]
         ELSE [st EXCEPT !.ops = Append(@, ReadOp(address, ntimes))]

\* _read_register(address, ntimes): the words are st.dev[address ..]
read_register(st, address, ntimes) ==
    IF st.status # "ok" THEN st
    ELSE IF Fails(st)
         THEN [st EXCEPT !.ops = Append(@, ReadOp(address, ntimes)),
                         !.status = "TransportError"]
         ELSE [st EXCEPT !.ops = Append(@, ReadOp(address, ntimes))]

\* _write_register(address, value): the peripheral stores the word
write_register(st, address, value) ==
    IF st.status # "ok" THEN st
    ELSE IF Fails(st)
         THEN [st EXCEPT !.ops = Append(@, WriteOp(address, value)),
                         !.status = "TransportError"]
         ELSE [st EXCEPT !.ops = Append(@, WriteOp(address, value)),
                         !.dev[address] = value]

----------------------------------------------------------------------------
(* _read_raw *)
(* A list of registers is a record: none is TRUE for registers=None,      *)
(* names are the names of the object's registers and multi-registers in   *)
(* the list.                                                               *)

NoRegisters == [none |-> TRUE, names |-> {}]
Registers(S) == [none |-> FALSE, names |-> S]

\* {addr: self._read_register(addr) for addr in addrs}
RECURSIVE ReadEach(_, _)
ReadEach(st, addrs) ==
    IF addrs = <<>> \/ st.status # "ok" THEN st
    ELSE LET a == Head(addrs)
             st1 == read_register(st, a, None)
         IN IF st1.status # "ok" THEN st1
            ELSE ReadEach([st1 EXCEPT !.raw = Append(@, <<a, st1.dev[a]>>)], Tail(addrs))

\* a slip in the length of the burst: max(addrs) - minaddr words
ReadGroupShort(st, addrs) ==
    IF addrs = <<>> THEN Raise(st, "ValueError")
    ELSE LET minaddr == Min(Range(addrs))
             n == Max(Range(addrs)) - minaddr
             st1 == read_register(st, minaddr, Some(n))
         IN IF st1.status # "ok" THEN st1
            ELSE [st1 EXCEPT !.raw = [i \in 1 .. n |-> <<minaddr + i - 1,
                                                         st1.dev[minaddr + i - 1]>>]]

\* one _read_register(minaddr, ntimes=max(addrs) - minaddr + 1)
ReadGroup(st, addrs) ==
    IF addrs = <<>> THEN Raise(st, "ValueError")     \* min() of an empty sequence
    ELSE LET minaddr == Min(Range(addrs))
             n == Max(Range(addrs)) - minaddr + 1
             st1 == read_register(st, minaddr, Some(n))
         IN IF st1.status # "ok" THEN st1
            ELSE [st1 EXCEPT !.raw = [i \in 1 .. n |-> <<minaddr + i - 1,
                                                         st1.dev[minaddr + i - 1]>>]]

read_raw(t, st, registers, groupread) ==
    IF st.status # "ok" THEN st
    ELSE IF ~registers.none /\ registers.names \cap MultiNames(t) # {}
         THEN Raise(st, "AttributeError")   \* a MultiRegisterValue has no address
    ELSE LET addrs == IF registers.none THEN AddrOrder(t.registers)
                      ELSE SetToSeq({Reg(t, n).address : n \in registers.names})
             st0 == [st EXCEPT !.raw = <<>>]
         IN IF groupread THEN ReadGroup(st0, addrs) ELSE ReadEach(st0, addrs)

----------------------------------------------------------------------------
(* RegisterValue.value setter and _update_state_by_register *)

\* regv.value = val: the setter raises when val does not fit nbits
SetRegValue(st, reg, val) ==
    IF st.status # "ok" THEN st
    ELSE IF val >= Pow2(reg.nbits) THEN Raise(st, "ValueError")
    ELSE [st EXCEPT !.cache[reg.name] = Some(val)]

\* a slip that leaves the mask out
DecodeNoMask(reg, word) == Shr(word, reg.offset)

\* a slip in the shift: by the width, not by the offset
DecodeShiftByNbits(reg, word) == Shr(BitAnd(word, bitmask(reg)), reg.nbits)

Decode(reg, word) == Shr(BitAnd(word, bitmask(reg)), reg.offset)

RECURSIVE UpdateRegs(_, _, _, _, _)
UpdateRegs(st, regs, val, skip_writeable, regs_to_check) ==
    IF regs = <<>> \/ st.status # "ok" THEN st
    ELSE LET regv == Head(regs)
             skip == \/ skip_writeable /\ regv.writeable = "True"
                     \/ ~regs_to_check.none /\ regv.name \notin regs_to_check.names
             st1 == IF skip THEN st ELSE SetRegValue(st, regv, Decode(regv, val))
         IN UpdateRegs(st1, Tail(regs), val, skip_writeable, regs_to_check)

update_state_by_register(t, st, addr, val, skip_writeable, regs_to_check) ==
    IF st.status # "ok" THEN st
    ELSE IF addr \notin MappedAddrs(t) THEN Raise(st, "KeyError")
    ELSE UpdateRegs(st, addr_to_regs(t.registers, addr), val, skip_writeable,
                    regs_to_check)

----------------------------------------------------------------------------
(* read_state *)

\* isinstance(i, MultiRegisterValue) of lines 187-188: i is the index that
\* enumerate yields, an int, never a MultiRegisterValue
IndexIsMulti(t, list, i) == FALSE

mr_idxs(t, list) == {i \in 1 .. Len(list) : IndexIsMulti(t, list, i)}

\* a list holding the elements of a set, in some order
RECURSIVE ListOf(_)
ListOf(S) ==
    IF S = {} THEN <<>>
    ELSE LET x == CHOOSE y \in S : TRUE IN <<x>> \o ListOf(S \ {x})

\* lines 185-192: the list with the multi-registers at mr_idxs replaced by
\* their registers, as a set; list is None (<<>>) or <<the list>>
ExpandRegisters(t, list) ==
    IF IsNone(list) THEN NoRegisters
    ELSE LET l == Val(list)
             sel == mr_idxs(t, l)
         IN Registers({l[i] : i \in (1 .. Len(l)) \ sel}
                      \cup UNION {Range(Multi(t, l[i]).registers) : i \in sel})

\* for addr, rawval in raw_values.items(): _update_state_by_register(...)
RECURSIVE UpdateFromRaw(_, _, _, _)
UpdateFromRaw(t, st, raw, r2c) ==
    IF raw = <<>> \/ st.status # "ok" THEN st
    ELSE UpdateFromRaw(t, update_state_by_register(t, st, Head(raw)[1], Head(raw)[2],
                                                   FALSE, r2c),
                       Tail(raw), r2c)

MapOf(raw) == [a \in {raw[i][1] : i \in 1 .. Len(raw)} |->
                 raw[CHOOSE i \in 1 .. Len(raw) : raw[i][1] = a][2]]

\* dict.update
MapUpdate(f, g) ==
    [a \in DOMAIN f \cup DOMAIN g |-> IF a \in DOMAIN g THEN g[a] ELSE f[a]]

\* r2c = registers if update_all else None
R2C(registers, update_all) == IF update_all THEN registers ELSE NoRegisters

\* a slip that decodes the words fetched before a read failed
ReadStatePlainEager(t, st, registers, groupread, update_all) ==
    LET st1 == read_raw(t, st, registers, groupread)
        st2 == UpdateFromRaw(t, [st1 EXCEPT !.status = st.status], st1.raw,
                             R2C(registers, update_all))
    IN IF st1.status # "ok" THEN [st2 EXCEPT !.status = st1.status]
       ELSE IF st2.status # "ok" THEN st2
       ELSE [st2 EXCEPT !.ret = MapOf(st1.raw)]

\* lines 202-206, the branch of groupread False or True; registers is a set
ReadStatePlain(t, st, registers, groupread, update_all) ==
    LET st1 == read_raw(t, st, registers, groupread)
        st2 == UpdateFromRaw(t, st1, st1.raw, R2C(registers, update_all))
    IN IF st2.status # "ok" THEN st2 ELSE [st2 EXCEPT !.ret = MapOf(st1.raw)]

\* lines 197-200, for the multi-registers mrs in dict order
RECURSIVE ReadStateMultis(_, _, _, _, _)
ReadStateMultis(t, st, mrs, registers, update_all) ==
    IF mrs = <<>> \/ st.status # "ok" THEN st
    ELSE LET mr == Head(mrs)
         IN IF registers.none /\ mr.registers # <<>>
            THEN Raise(st, "TypeError")    \* reg in None
            ELSE LET regs_to_up == IF registers.none THEN {}
                                   ELSE Range(mr.registers) \cap registers.names
                     sub == ReadStatePlain(t, st,
                                           ExpandRegisters(t, Some(ListOf(regs_to_up))),
                                           TRUE, update_all)
                     st1 == IF sub.status # "ok" THEN sub
                            ELSE [sub EXCEPT !.ret = MapUpdate(st.ret, sub.ret)]
                 IN ReadStateMultis(t, st1, Tail(mrs), registers, update_all)

AsList(registers) == IF registers.none THEN None ELSE Some(ListOf(registers.names))

\* registers is None or <<a list of names>>; groupread is "multi", "True" or
\* "False"
read_state(t, st, registers, groupread, update_all) ==
    LET regs == ExpandRegisters(t, registers)
    IN IF groupread = "multi"
       THEN LET st1 == ReadStatePlain(t, st, ExpandRegisters(t, AsList(regs)), FALSE,
                                      update_all)
            IN ReadStateMultis(t, st1, t.multiregs, regs, update_all)
       ELSE ReadStatePlain(t, st, regs, groupread = "True", update_all)

----------------------------------------------------------------------------
(* write_state *)

\* line 224 calls self._read_raw() without its two required arguments
read_raw_noargs(st) == Raise(st, "TypeError")

AllOnes(t) == Pow2(t.register_size) - 1

\* lines 234-248 for the fields regs of one address; acc is
\* [st, newval, read_back]; baseline is raw_values[addr] (None without only_update)
RECURSIVE ComposeAndWrite(_, _, _, _, _, _)
ComposeAndWrite(t, acc, regs, addr, only_update, baseline) ==
    IF regs = <<>> \/ acc.st.status # "ok" THEN acc
    ELSE LET regv == Head(regs)
             v == acc.st.cache[regv.name]
             rest == Tail(regs)
         IN IF IsNone(v) THEN ComposeAndWrite(t, acc, rest, addr, only_update, baseline)
            ELSE IF regv.writeable = "False"
            THEN ComposeAndWrite(t, acc, rest, addr, only_update, baseline)
            ELSE LET rb == acc.read_back \/ regv.writeable = "None"
                     cleared == BitAnd(acc.newval,
                                       BitAnd(BitNot(bitmask(regv)), AllOnes(t)))
                     newval == IF Val(v) # 0
                               THEN BitOr(cleared, Shl(Val(v), regv.offset))
                               ELSE cleared
                     st1 == IF ~only_update \/ newval # Val(baseline)
                            THEN write_register(acc.st, addr, newval)
                            ELSE acc.st
                 IN ComposeAndWrite(t, [st |-> st1, newval |-> newval, read_back |-> rb],
                                    rest, addr, only_update, baseline)

\* a slip that drops lines 249-251: no read-back after the writes
RECURSIVE WriteAddrsNoReadBack(_, _, _, _, _)
WriteAddrsNoReadBack(t, st, addrs, only_update, raw_values) ==
    IF addrs = <<>> \/ st.status # "ok" THEN st
    ELSE LET addr == Head(addrs)
             baseline == IF only_update THEN Some(raw_values[addr]) ELSE None
             acc == ComposeAndWrite(t, [st |-> st,
                                        newval |-> IF only_update THEN Val(baseline) ELSE 0,
                                        read_back |-> FALSE],
                                    addr_to_regs(t.registers, addr), addr, only_update,
                                    baseline)
         IN WriteAddrsNoReadBack(t, acc.st, Tail(addrs), only_update, raw_values)

\* a slip that reads back at every address, whatever read_back is
RECURSIVE WriteAddrsAlwaysReadBack(_, _, _, _, _)
WriteAddrsAlwaysReadBack(t, st, addrs, only_update, raw_values) ==
    IF addrs = <<>> \/ st.status # "ok" THEN st
    ELSE LET addr == Head(addrs)
             baseline == IF only_update THEN Some(raw_values[addr]) ELSE None
             acc == ComposeAndWrite(t, [st |-> st,
                                        newval |-> IF only_update THEN Val(baseline) ELSE 0,
                                        read_back |-> FALSE],
                                    addr_to_regs(t.registers, addr), addr, only_update,
                                    baseline)
             r == read_register(acc.st, addr, None)
             st1 == update_state_by_register(t, r, addr, r.dev[addr], TRUE, NoRegisters)
         IN WriteAddrsAlwaysReadBack(t, st1, Tail(addrs), only_update, raw_values)

\* lines 231-251 for the addresses addrs, in order
RECURSIVE WriteAddrs(_, _, _, _, _)
WriteAddrs(t, st, addrs, only_update, raw_values) ==
    IF addrs = <<>> \/ st.status # "ok" THEN st
    ELSE LET addr == Head(addrs)
             baseline == IF only_update THEN Some(raw_values[addr]) ELSE None
             acc == ComposeAndWrite(t, [st |-> st,
                                        newval |-> IF only_update THEN Val(baseline) ELSE 0,
                                        read_back |-> FALSE],
                                    addr_to_regs(t.registers, addr), addr, only_update,
                                    baseline)
             st1 == IF acc.read_back
                    THEN LET r == read_register(acc.st, addr, None)
                         IN update_state_by_register(t, r, addr, r.dev[addr], TRUE,
                                                     NoRegisters)
                    ELSE acc.st
         IN WriteAddrs(t, st1, Tail(addrs), only_update, raw_values)

\* registers is None or <<a list of names>>
write_state(t, st, registers, only_update) ==
    LET st1 == IF only_update THEN read_raw_noargs(st) ELSE st
        raw_values == MapOf(st1.raw)
    IN IF st1.status # "ok" THEN st1
       ELSE IF IsNone(registers)
       THEN WriteAddrs(t, st1, AddrOrder(t.registers), only_update, raw_values)
       ELSE LET l == Val(registers)
            IN IF Range(l) \cap MultiNames(t) # {}
               THEN Raise(st1, "AttributeError")  \* a MultiRegisterValue has no address
               ELSE WriteAddrs(t, st1, [i \in 1 .. Len(l) |-> Reg(t, l[i]).address],
                               only_update, raw_values)

----------------------------------------------------------------------------
(* The objects of the model *)

Template(registers, multiregs, register_size) ==
    [registers |-> registers, multiregs |-> multiregs, register_size |-> register_size,
     values |-> [n \in {registers[i].name : i \in 1 .. Len(registers)} |-> None]]

\* plain fields only, address 1 unmapped, addresses not in ascending order
LayoutA ==
    Template(<<RegisterValue("c", 2, 1, 2, "False"),
               RegisterValue("a", 0, 0, 2, "True"),
               RegisterValue("b", 0, 2, 1, "None")>>,
             <<>>, 3)

\* a multi-register over the contiguous addresses 1 and 2
LayoutB ==
    Template(<<RegisterValue("a", 1, 0, 2, "False"),
               RegisterValue("b", 2, 1, 2, "None"),
               RegisterValue("c", 1, 2, 1, "True")>>,
             <<MultiRegisterValue("m", <<"a", "b">>)>>, 3)

\* a multi-register over the addresses 0 and 2, address 1 unmapped
LayoutC ==
    Template(<<RegisterValue("a", 0, 1, 2, "True"),
               RegisterValue("b", 0, 0, 1, "True"),
               RegisterValue("c", 2, 0, 3, "None")>>,
             <<MultiRegisterValue("m", <<"a", "c">>)>>, 3)

\* one address: a field of unspecified writeability below a read-only field
LayoutD ==
    Template(<<RegisterValue("a", 0, 0, 1, "None"),
               RegisterValue("b", 0, 1, 2, "False")>>,
             <<>>, 3)

Layouts == {LayoutA, LayoutB, LayoutC, LayoutD}

Words(t) == 0 .. AllOnes(t)

\* the values a caller gave the template's registers before constructing:
\* none, all zero, all one, all ones, only the first register's, or a negative
\* one for the first register (the setter of line 64 accepts it)
TemplateValues(t) ==
    {[n \in FieldNames(t) |-> None],
     [n \in FieldNames(t) |-> Some(0)],
     [n \in FieldNames(t) |-> Some(1)],
     [n \in FieldNames(t) |-> Some(Pow2(Reg(t, n).nbits) - 1)],
     [n \in FieldNames(t) |-> IF n = t.registers[1].name THEN Some(1) ELSE None],
     [n \in FieldNames(t) |-> IF n = t.registers[1].name THEN Some(-1) ELSE Some(1)]}

\* the words the peripheral holds at first, at each address: 001, 010 or 110
\* under an object without values, 001 or 110 under one with values
InitWords(t) ==
    IF \A n \in FieldNames(t) : IsNone(t.values[n])
    THEN {1, 2, AllOnes(t) - 1}
    ELSE {1, AllOnes(t) - 1}

\* the lists of registers a caller passes: None, or up to MaxRequest distinct
\* registers and multi-registers of the object
Names(t) == FieldNames(t) \cup MultiNames(t)

Lists(t) ==
    {None} \cup
    {Some(l) : l \in {q \in UNION {[1 .. k -> Names(t)] : k \in 0 .. MaxRequest} :
                         \A i, j \in 1 .. Len(q) : i # j => q[i] # q[j]}}

\* read_state makes a set of its list: one list for each set of names
SetLists(t) ==
    {None} \cup {Some(ListOf(S)) : S \in {T \in SUBSET Names(t) : Cardinality(T) <= MaxRequest}}

\* RegisterState itself is abstract: it has no transport of its own
NoTransport == [class |-> "RegisterState"]

NoCall ==
    [op |-> "none", registers |-> None, groupread |-> "False", update_all |-> FALSE,
     only_update |-> FALSE, fail |-> 0, name |-> "", value |-> 0, file |-> 0,
     address |-> 0]

----------------------------------------------------------------------------
(* The state machine *)

Init ==
    /\ \E t \in Layouts : \E v \in TemplateValues(t) : tmpl = [t EXCEPT !.values = v]
    /\ built = RegisterState_init(tmpl)
    /\ cache = InitialCache(tmpl)
    /\ dev \in [Addrs(tmpl) -> InitWords(tmpl)]
    /\ call = NoCall
    /\ result = "ok"
    /\ ret = EmptyMap
    /\ ops = <<>>
    /\ pre = [cache |-> cache, dev |-> dev]
    /\ pc = "idle"
    /\ ncalls = 0
    /\ heap = <<>>
    /\ files = <<>>
    /\ transport = NoTransport

CanCall == built = "ok" /\ pc = "idle" /\ ncalls < MaxCalls

Finish(st, c) ==
    /\ cache' = st.cache
    /\ dev' = st.dev
    /\ ops' = st.ops
    /\ result' = st.status
    /\ ret' = IF st.status = "ok" /\ c.op = "read_state" THEN st.ret ELSE EmptyMap
    /\ call' = c
    /\ pre' = [cache |-> cache, dev |-> dev]
    /\ pc' = "returned"
    /\ ncalls' = ncalls + 1
    /\ UNCHANGED <<tmpl, built, heap, files, transport>>

\* the transport fails at operation failAt only if the call gets that far
FailsAsAsked(st, failAt) == failAt = 0 \/ Len(st.ops) >= failAt

ReadState ==
    /\ CanCall
    /\ \E registers \in SetLists(tmpl), groupread \in {"multi", "True", "False"},
          update_all \in BOOLEAN, failAt \in 0 .. MaxFail :
          LET st == read_state(tmpl, Start(cache, dev, failAt), registers, groupread,
                               update_all)
          IN /\ FailsAsAsked(st, failAt)
             /\ Finish(st, [NoCall EXCEPT !.op = "read_state", !.registers = registers,
                                          !.groupread = groupread,
                                          !.update_all = update_all, !.fail = failAt])

WriteState ==
    /\ CanCall
    /\ \E registers \in Lists(tmpl), only_update \in BOOLEAN, failAt \in 0 .. MaxFail :
          LET st == write_state(tmpl, Start(cache, dev, failAt), registers, only_update)
          IN /\ FailsAsAsked(st, failAt)
             /\ Finish(st, [NoCall EXCEPT !.op = "write_state", !.registers = registers,
                                          !.only_update = only_update, !.fail = failAt])

\* get_register(name).value = val on a plain register
SetValue ==
    /\ CanCall
    /\ \E name \in FieldNames(tmpl) :
          \E val \in -1 .. Pow2(Reg(tmpl, name).nbits) :
             LET st == SetRegValue(Start(cache, dev, 0), Reg(tmpl, name), val)
             IN Finish(st, [NoCall EXCEPT !.op = "set_value", !.name = name,
                                          !.value = val])

\* the call has returned (or raised) and the caller goes on
Return ==
    /\ pc = "returned"
    /\ pc' = "idle"
    /\ call' = NoCall
    /\ result' = "ok"
    /\ ret' = EmptyMap
    /\ ops' = <<>>
    /\ pre' = [cache |-> cache, dev |-> dev]
    /\ UNCHANGED <<tmpl, built, cache, dev, ncalls, heap, files, transport>>

Next == ReadState \/ WriteState \/ SetValue \/ Return

Spec == Init /\ [][Next]_vars

----------------------------------------------------------------------------
(* Construction alone, over every layout of up to three fields *)

ConstructNames == <<"a", "b", "c">>
ConstructAddrs == {0, 1}
RegisterSizes == {2, 3}

ConstructFields(name) ==
    {RegisterValue(name, address, offset, nbits, "None") :
        address \in ConstructAddrs, offset \in 0 .. MaxOffset, nbits \in 1 .. MaxBits}

ConstructTemplates ==
    {Template(registers, <<>>, register_size) :
        registers \in UNION {{q \in [1 .. k -> UNION {ConstructFields(ConstructNames[i]) :
                                                        i \in 1 .. Len(ConstructNames)}] :
                                 \A i \in 1 .. k : q[i].name = ConstructNames[i]} :
                             k \in 1 .. Len(ConstructNames)},
        register_size \in RegisterSizes}

InitConstruct ==
    /\ tmpl \in ConstructTemplates
    /\ built = "new"
    /\ cache = InitialCache(tmpl)
    /\ dev = [a \in Addrs(tmpl) |-> 0]
    /\ call = NoCall
    /\ result = "ok"
    /\ ret = EmptyMap
    /\ ops = <<>>
    /\ pre = [cache |-> cache, dev |-> dev]
    /\ pc = "idle"
    /\ ncalls = 0
    /\ heap = <<>>
    /\ files = <<>>
    /\ transport = NoTransport

\* RegisterState(registers, register_size)
Construct ==
    /\ built = "new"
    /\ built' = RegisterState_init(tmpl)
    /\ UNCHANGED <<tmpl, cache, dev, call, result, ret, ops, pre, pc, ncalls, heap, files, transport>>

NextConstruct == Construct

SpecConstruct == InitConstruct /\ [][NextConstruct]_vars

----------------------------------------------------------------------------
(* Objects by identity: copy(), the maps of _update_registers, and         *)
(* MultiRegisterValue.value.  An object is a record on the heap and its    *)
(* identity is its index.  The address, offset, nbits and writeable of a   *)
(* RegisterValue are never assigned after __init__: they are those of the  *)
(* template's register of the same name.                                   *)

Object(class, name, value, registers) ==
    [class |-> class, name |-> name, value |-> value, registers |-> registers]

IndexOf(t, name) == CHOOSE i \in 1 .. Len(t.registers) : t.registers[i].name = name

\* the objects the caller made: the RegisterValues, then the
\* MultiRegisterValues over them
TemplateHeap(t) ==
    [i \in 1 .. (Len(t.registers) + Len(t.multiregs)) |->
        IF i <= Len(t.registers)
        THEN Object("RegisterValue", t.registers[i].name,
                    t.values[t.registers[i].name], <<>>)
        ELSE LET mr == t.multiregs[i - Len(t.registers)]
             IN Object("MultiRegisterValue", mr.name, None,
                       [k \in 1 .. Len(mr.registers) |-> IndexOf(t, mr.registers[k])])]

\* the list the caller passes to RegisterState(registers=...)
TemplateList(t) == [i \in 1 .. (Len(t.registers) + Len(t.multiregs)) |-> i]

\* a slip: copy() makes a new object without the value
copyUnset(h, id) == [heap |-> Append(h, [h[id] EXCEPT !.value = None]), id |-> Len(h) + 1]

\* a slip: copy() hands back the object itself
copySelf(h, id) == [heap |-> h, id |-> id]

\* copy.copy(self): a new object with the same attribute values
copy(h, id) == [heap |-> Append(h, h[id]), id |-> Len(h) + 1]

\* {r.name: r.copy() for r in regs if r is of the class}; acc is [heap, map]
RECURSIVE CopyByName(_, _, _)
CopyByName(acc, regs, class) ==
    IF regs = <<>> THEN acc
    ELSE LET r == Head(regs)
         IN IF acc.heap[r].class # class THEN CopyByName(acc, Tail(regs), class)
            ELSE LET c == copy(acc.heap, r)
                 IN CopyByName([heap |-> c.heap,
                                map |-> MapUpdate(acc.map, (acc.heap[r].name :> c.id))],
                               Tail(regs), class)

\* a slip that drops lines 120-121: the copies keep the registers of the
\* caller's multi-registers
RelinkNone(h, mrs, name_to_reg) == h

\* lines 120-121: mr.registers = tuple(self._name_to_reg[r.name] for r in
\* mr.registers), for the multi-registers mrs
RECURSIVE RelinkEach(_, _, _)
RelinkEach(h, mrs, name_to_reg) ==
    IF mrs = <<>> THEN h
    ELSE LET mr == Head(mrs)
             linked == [k \in 1 .. Len(h[mr].registers) |->
                           name_to_reg[h[h[mr].registers[k]].name]]
         IN RelinkEach([h EXCEPT ![mr].registers = linked], Tail(mrs), name_to_reg)

\* RegisterState(regs, register_size) on the heap h: the new heap, the new
\* object's _name_to_reg and _name_to_multireg, and the outcome
RegisterState_new(h, regs, t) ==
    LET fields == CopyByName([heap |-> h, map |-> EmptyMap], regs, "RegisterValue")
        multis == CopyByName([heap |-> fields.heap, map |-> EmptyMap], regs,
                             "MultiRegisterValue")
        mrs == SetToSeq({multis.map[n] : n \in DOMAIN multis.map})
    IN [heap |-> IF Relinked(t) THEN RelinkEach(multis.heap, mrs, fields.map)
                 ELSE multis.heap,
        file |-> [name_to_reg |-> fields.map, name_to_multireg |-> multis.map],
        status |-> RegisterState_init(t)]

\* the values of a RegisterState's own registers, by name, and their assignment
CacheOf(h, f) == [n \in DOMAIN f.name_to_reg |-> h[f.name_to_reg[n]].value]

StoreCache(h, f, c) ==
    [i \in DOMAIN h |->
        IF \E n \in DOMAIN f.name_to_reg : f.name_to_reg[n] = i
        THEN [h[i] EXCEPT !.value = c[CHOOSE n \in DOMAIN f.name_to_reg :
                                          f.name_to_reg[n] = i]]
        ELSE h[i]]

\* a slip in get_register: the plain register first
get_registerPlainFirst(f, name) ==
    IF name \in DOMAIN f.name_to_reg THEN Some(f.name_to_reg[name])
    ELSE IF name \in DOMAIN f.name_to_multireg THEN Some(f.name_to_multireg[name])
    ELSE None

\* get_register(name): the object, or None for the KeyError of line 145
get_register(f, name) ==
    IF name \in DOMAIN f.name_to_multireg THEN Some(f.name_to_multireg[name])
    ELSE IF name \in DOMAIN f.name_to_reg THEN Some(f.name_to_reg[name])
    ELSE None

\* get_registers_at_address(address): the tuple _addr_to_regs[address] of the
\* object's own registers, or None for the KeyError of line 148
get_registers_at_address(t, f, address) ==
    IF address \notin MappedAddrs(t) THEN None
    ELSE LET regs == addr_to_regs(t.registers, address)
         IN Some([i \in 1 .. Len(regs) |-> f.name_to_reg[regs[i].name]])

\* a slip in the shift of MultiRegisterValue.value: bitsdone counts registers
RECURSIVE multi_valueByCount(_, _)
multi_valueByCount(acc, regs) ==
    IF regs = <<>> \/ acc.status # "ok" THEN acc
    ELSE LET r == Head(regs)
         IN IF IsNone(r.value) THEN [acc EXCEPT !.status = "TypeError"]
            ELSE multi_valueByCount([status |-> "ok",
                                     val |-> BitOr(acc.val, Shl(Val(r.value), acc.bitsdone)),
                                     bitsdone |-> acc.bitsdone + 1],
                                    Tail(regs))

\* lines 93-98 over the registers regs, each [value, nbits]; acc is
\* [status, val, bitsdone]; None << bitsdone raises TypeError
RECURSIVE multi_value(_, _)
multi_value(acc, regs) ==
    IF regs = <<>> \/ acc.status # "ok" THEN acc
    ELSE LET r == Head(regs)
         IN IF IsNone(r.value) THEN [acc EXCEPT !.status = "TypeError"]
            ELSE multi_value([status |-> "ok",
                              val |-> BitOr(acc.val, Shl(Val(r.value), acc.bitsdone)),
                              bitsdone |-> acc.bitsdone + r.nbits],
                             Tail(regs))

\* the registers of the multi-register id, as multi_value takes them
RegistersOf(t, h, id) ==
    [k \in 1 .. Len(h[id].registers) |->
        [value |-> h[h[id].registers[k]].value,
         nbits |-> Reg(t, h[h[id].registers[k]].name).nbits]]

\* obj.value: [status, val], val an optional value
get_value(t, h, id) ==
    IF h[id].class = "MultiRegisterValue"
    THEN LET r == multi_value([status |-> "ok", val |-> 0, bitsdone |-> 0],
                              RegistersOf(t, h, id))
         IN [status |-> r.status, val |-> Some(r.val)]
    ELSE [status |-> "ok", val |-> h[id].value]

\* a slip in the setter of a multi-register: it assigns its first register
multi_set_valueFirst(t, h, id, val) ==
    [heap |-> [h EXCEPT ![h[id].registers[1]].value = Some(val)],
     status |-> "NotImplementedError"]

\* MultiRegisterValue's value setter, lines 99-101
multi_set_value(t, h, id, val) == [heap |-> h, status |-> "NotImplementedError"]

\* obj.value = val: [heap, status]
set_value(t, h, id, val) ==
    IF h[id].class = "MultiRegisterValue" THEN multi_set_value(t, h, id, val)
    ELSE IF val >= Pow2(Reg(t, h[id].name).nbits) THEN [heap |-> h, status |-> "ValueError"]
    ELSE [heap |-> [h EXCEPT ![id].value = Some(val)], status |-> "ok"]

----------------------------------------------------------------------------
(* Several RegisterStates constructed from one template *)

\* a multi-register that has the name of a register, its registers of
\* different widths and not in address order
LayoutE ==
    Template(<<RegisterValue("a", 0, 0, 2, "None"),
               RegisterValue("b", 1, 1, 1, "True")>>,
             <<MultiRegisterValue("b", <<"b", "a">>)>>, 3)

ObjectLayouts == {LayoutB, LayoutE}

\* a name that is in neither map
UnknownName == "zz"

InitObjects ==
    /\ \E t \in ObjectLayouts : \E v \in TemplateValues(t) : tmpl = [t EXCEPT !.values = v]
    /\ built = RegisterState_init(tmpl)
    /\ cache = InitialCache(tmpl)
    /\ dev \in [Addrs(tmpl) -> InitWords(tmpl)]
    /\ call = NoCall
    /\ result = "ok"
    /\ ret = EmptyMap
    /\ ops = <<>>
    /\ pre = [cache |-> cache, dev |-> dev, heap |-> TemplateHeap(tmpl)]
    /\ pc = "idle"
    /\ ncalls = 0
    /\ heap = TemplateHeap(tmpl)
    /\ files = <<>>
    /\ transport = NoTransport

\* RegisterState(registers, register_size), once more from the same list
NewFile ==
    /\ pc = "idle"
    /\ Len(files) < MaxFiles
    /\ LET new == RegisterState_new(heap, TemplateList(tmpl), tmpl)
       IN /\ new.status = "ok"
          /\ heap' = new.heap
          /\ files' = Append(files, new.file)
    /\ pre' = [pre EXCEPT !.heap = heap']
    /\ UNCHANGED <<tmpl, built, cache, dev, call, result, ret, ops, pc, ncalls, transport>>

CanCallOn == pc = "idle" /\ ncalls < MaxCalls /\ files # <<>>

FinishOn(h, d, status, returned, issued, c) ==
    /\ heap' = h
    /\ dev' = d
    /\ result' = status
    /\ ret' = returned
    /\ ops' = issued
    /\ call' = c
    /\ pre' = [cache |-> cache, dev |-> dev, heap |-> heap]
    /\ pc' = "returned"
    /\ ncalls' = ncalls + 1
    /\ UNCHANGED <<tmpl, built, cache, files, transport>>

\* files[k].read_state(groupread=...)
ReadStateOn ==
    /\ CanCallOn
    /\ \E k \in 1 .. Len(files), groupread \in {"True", "False"} :
          LET st == read_state(tmpl, Start(CacheOf(heap, files[k]), dev, 0), None,
                               groupread, TRUE)
          IN FinishOn(StoreCache(heap, files[k], st.cache), st.dev, st.status,
                      IF st.status = "ok" THEN st.ret ELSE EmptyMap, st.ops,
                      [NoCall EXCEPT !.op = "read_state", !.groupread = groupread,
                                     !.update_all = TRUE, !.file = k])

\* files[k].write_state(only_update=False)
WriteStateOn ==
    /\ CanCallOn
    /\ \E k \in 1 .. Len(files) :
          LET st == write_state(tmpl, Start(CacheOf(heap, files[k]), dev, 0), None, FALSE)
          IN FinishOn(StoreCache(heap, files[k], st.cache), st.dev, st.status, EmptyMap,
                      st.ops, [NoCall EXCEPT !.op = "write_state", !.file = k])

\* files[k].get_register(name).value = val
SetValueOn ==
    /\ CanCallOn
    /\ \E k \in 1 .. Len(files), name \in Names(tmpl) \cup {UnknownName}, val \in -1 .. 1 :
          LET obj == get_register(files[k], name)
              c == [NoCall EXCEPT !.op = "set_value", !.file = k, !.name = name,
                                  !.value = val]
          IN IF IsNone(obj) THEN FinishOn(heap, dev, "KeyError", EmptyMap, <<>>, c)
             ELSE LET set == set_value(tmpl, heap, Val(obj), val)
                  IN FinishOn(set.heap, dev, set.status, EmptyMap, <<>>, c)

\* the caller assigns a value to a register of the template
SetTemplateValue ==
    /\ CanCallOn
    /\ \E id \in DOMAIN TemplateHeap(tmpl), val \in -1 .. 1 :
          LET set == set_value(tmpl, heap, id, val)
          IN FinishOn(set.heap, dev, set.status, EmptyMap, <<>>,
                      [NoCall EXCEPT !.op = "set_template_value", !.name = heap[id].name,
                                     !.value = val])

\* files[k].get_register(name).value: the object found and its value
GetValueOn ==
    /\ CanCallOn
    /\ \E k \in 1 .. Len(files), name \in Names(tmpl) \cup {UnknownName} :
          LET obj == get_register(files[k], name)
              c == [NoCall EXCEPT !.op = "get_value", !.file = k, !.name = name]
          IN IF IsNone(obj) THEN FinishOn(heap, dev, "KeyError", EmptyMap, <<>>, c)
             ELSE LET got == get_value(tmpl, heap, Val(obj))
                  IN FinishOn(heap, dev, got.status,
                              [object |-> Val(obj),
                               value |-> IF got.status = "ok" THEN got.val ELSE None],
                              <<>>, c)

\* files[k].get_registers_at_address(address)
GetRegistersAtAddress ==
    /\ CanCallOn
    /\ \E k \in 1 .. Len(files), address \in 0 .. (Max(MappedAddrs(tmpl)) + 1) :
          LET regs == get_registers_at_address(tmpl, files[k], address)
              c == [NoCall EXCEPT !.op = "get_registers_at_address", !.file = k,
                                  !.address = address]
          IN IF IsNone(regs) THEN FinishOn(heap, dev, "KeyError", EmptyMap, <<>>, c)
             ELSE FinishOn(heap, dev, "ok", Val(regs), <<>>, c)

\* the call has returned (or raised) and the caller goes on
ReturnOn ==
    /\ pc = "returned"
    /\ pc' = "idle"
    /\ call' = NoCall
    /\ result' = "ok"
    /\ ret' = EmptyMap
    /\ ops' = <<>>
    /\ pre' = [cache |-> cache, dev |-> dev, heap |-> heap]
    /\ UNCHANGED <<tmpl, built, cache, dev, ncalls, heap, files, transport>>

NextObjects ==
    \/ NewFile
    \/ ReadStateOn
    \/ WriteStateOn
    \/ SetValueOn
    \/ SetTemplateValue
    \/ GetValueOn
    \/ GetRegistersAtAddress
    \/ ReturnOn

SpecObjects == InitObjects /\ [][NextObjects]_vars

----------------------------------------------------------------------------
(* FileRegisterState: the words are kept in a text file, one line          *)
(* "address word" per address.  A text is a sequence of lines, a line the  *)
(* sequence of its whitespace-separated tokens, a token a sequence of      *)
(* characters.  In this part dev holds the texts of the files by name and  *)
(* transport the attributes infn, outfn, update, hex and _file_data.       *)

DigitChars == <<"0", "1", "2", "3", "4", "5", "6", "7", "8", "9",
                "a", "b", "c", "d", "e", "f">>

\* '{:x}'.format(n) for base 16, '{}'.format(n) for base 10
RECURSIVE FormatNat(_, _)
FormatNat(n, base) ==
    IF n < base THEN <<DigitChars[n + 1]>>
    ELSE Append(FormatNat(n \div base, base), DigitChars[(n % base) + 1])

Format(n, base) == IF n < 0 THEN <<"-">> \o FormatNat(-n, base) ELSE FormatNat(n, base)

\* the digits of a literal, most significant first; None for an invalid one
RECURSIVE ParseNat(_, _, _)
ParseNat(s, base, acc) ==
    IF s = <<>> THEN Some(acc)
    ELSE IF \E d \in 0 .. (base - 1) : DigitChars[d + 1] = Head(s)
         THEN ParseNat(Tail(s), base,
                       acc * base + (CHOOSE d \in 0 .. (base - 1) : DigitChars[d + 1] = Head(s)))
         ELSE None

\* int(s, base=base): None stands for the ValueError of an invalid literal
int(s, base) ==
    IF s = <<>> THEN None
    ELSE IF Head(s) = "-"
         THEN IF Tail(s) = <<>> \/ IsNone(ParseNat(Tail(s), base, 0)) THEN None
              ELSE Some(-Val(ParseNat(Tail(s), base, 0)))
         ELSE ParseNat(s, base, 0)

Line(addr, word, base) == <<Format(addr, base), Format(word, base)>>

BaseOf(t) == IF t.hex THEN 16 ELSE 10

FileRegisterState_init(infn, outfn, update, hex) ==
    [class |-> "FileRegisterState", infn |-> infn, outfn |-> outfn, update |-> update,
     hex |-> TRUE, file_data |-> None]

\* f[a] = w on a dict kept as a function
SetItem(f, a, w) == [x \in (DOMAIN f) \cup {a} |-> IF x = a THEN w ELSE f[x]]

\* a file access in progress: the transport's attributes, the files, the
\* exception raised so far, the value returned and the files opened
StartFile(t, fs) == [transport |-> t, dev |-> fs, status |-> "ok", ret |-> None, ops |-> <<>>]

RECURSIVE ReadLines(_, _, _)
ReadLines(st, text, base) ==
    IF text = <<>> \/ st.status # "ok" THEN st
    ELSE LET l == Head(text) IN
         IF l = <<>> THEN ReadLines(st, Tail(text), base)
         ELSE IF Len(l) # 2 THEN [st EXCEPT !.status = "AssertionError"]
         ELSE IF IsNone(int(l[1], base)) \/ IsNone(int(l[2], base))
              THEN [st EXCEPT !.status = "ValueError"]
         ELSE ReadLines(
                [st EXCEPT !.transport.file_data =
                    Some(SetItem(Val(@), Val(int(l[1], base)), Val(int(l[2], base))))],
                Tail(text), base)

read_file(st) ==
    ReadLines([st EXCEPT !.transport.file_data = Some(EmptyMap),
                         !.ops = Append(@, [op |-> "read", file |-> st.transport.infn])],
              st.dev[st.transport.infn], BaseOf(st.transport))

\* the addresses of a dict in ascending order
RECURSIVE Sorted(_)
Sorted(S) ==
    IF S = {} THEN <<>>
    ELSE LET m == CHOOSE x \in S : \A y \in S : x <= y IN <<m>> \o Sorted(S \ {m})

write_file(st) ==
    IF IsNone(st.transport.file_data) THEN st
    ELSE LET outfn == IF IsNone(st.transport.outfn) THEN st.transport.infn
                      ELSE Val(st.transport.outfn)
             data  == Val(st.transport.file_data)
             addrs == Sorted(DOMAIN data)
         IN [st EXCEPT
                !.dev[outfn] = [i \in 1 .. Len(addrs) |->
                                   Line(addrs[i], data[addrs[i]], BaseOf(st.transport))],
                !.ops = Append(@, [op |-> "write", file |-> outfn])]

File_read_register(st0, address, ntimes) ==
    LET st == IF st0.transport.update \/ IsNone(st0.transport.file_data)
              THEN read_file(st0) ELSE st0
        data == Val(st.transport.file_data)
        wanted == IF IsNone(ntimes) THEN {address}
                  ELSE {address + i : i \in 0 .. (Val(ntimes) - 1)}
    IN IF st.status # "ok" THEN st
       ELSE IF ~(wanted \subseteq DOMAIN data) THEN [st EXCEPT !.status = "KeyError"]
       ELSE IF IsNone(ntimes) THEN [st EXCEPT !.ret = Some(data[address])]
       ELSE [st EXCEPT !.ret = Some([i \in 1 .. Val(ntimes) |-> data[address + i - 1]])]

File_write_register(st, address, value) ==
    IF IsNone(st.transport.file_data) THEN [st EXCEPT !.status = "TypeError"]
    ELSE [st EXCEPT !.transport.file_data = Some(SetItem(Val(@), address, value))]

(* The file accesses as a state machine *)

InFile == "in"
OutFile == "out"

FileWords == {2, 171}
FileAddrs == {0, 1, 16}

\* a file as write_file leaves it, and one written by hand: unsorted, with a
\* blank line and an address given twice
InitTexts ==
    { <<Line(0, 1, 16), Line(1, 171, 16)>>,
      <<Line(16, 171, 16), <<>>, Line(0, 2, 16), Line(16, 1, 16)>> }

TransportCall(op, address, ntimes, value) ==
    [op |-> op, address |-> address, ntimes |-> ntimes, value |-> value]

InitFile ==
    /\ tmpl = Template(<<>>, <<>>, 8)
    /\ built = "ok"
    /\ cache = EmptyMap
    /\ heap = <<>>
    /\ files = <<>>
    /\ ncalls = 0
    /\ \E text \in InitTexts : dev = [fn \in {InFile, OutFile} |-> IF fn = InFile THEN text ELSE <<>>]
    /\ \E outfn \in {None, Some(OutFile)}, update \in BOOLEAN, hex \in BOOLEAN :
           transport = FileRegisterState_init(InFile, outfn, update, hex)
    /\ call = TransportCall("none", 0, None, 0)
    /\ result = "ok"
    /\ ret = None
    /\ ops = <<>>
    /\ pre = [transport |-> transport, dev |-> dev]
    /\ pc = "idle"

FinishFile(c, st) ==
    /\ call' = c
    /\ transport' = st.transport
    /\ dev' = st.dev
    /\ result' = st.status
    /\ ret' = st.ret
    /\ ops' = st.ops
    /\ pre' = [transport |-> transport, dev |-> dev]
    /\ pc' = "returned"
    /\ UNCHANGED <<tmpl, built, cache, ncalls, heap, files>>

FileReadRegister ==
    /\ pc = "idle"
    /\ \E address \in FileAddrs, ntimes \in {None, Some(2)} :
           FinishFile(TransportCall("_read_register", address, ntimes, 0),
                      File_read_register(StartFile(transport, dev), address, ntimes))

FileWriteRegister ==
    /\ pc = "idle"
    /\ \E address \in FileAddrs, value \in FileWords :
           FinishFile(TransportCall("_write_register", address, None, value),
                      File_write_register(StartFile(transport, dev), address, value))

ReadFile ==
    /\ pc = "idle"
    /\ FinishFile(TransportCall("read_file", 0, None, 0), read_file(StartFile(transport, dev)))

WriteFile ==
    /\ pc = "idle"
    /\ FinishFile(TransportCall("write_file", 0, None, 0), write_file(StartFile(transport, dev)))

ReturnFile ==
    /\ pc = "returned"
    /\ pc' = "idle"
    /\ call' = TransportCall("none", 0, None, 0)
    /\ result' = "ok"
    /\ ret' = None
    /\ ops' = <<>>
    /\ pre' = [transport |-> transport, dev |-> dev]
    /\ UNCHANGED <<tmpl, built, cache, dev, ncalls, heap, files, transport>>

NextFile ==
    \/ FileReadRegister
    \/ FileWriteRegister
    \/ ReadFile
    \/ WriteFile
    \/ ReturnFile

SpecFile == InitFile /\ [][NextFile]_vars

----------------------------------------------------------------------------
(* SPIRegisterState: every transfer starts with a command byte made from   *)
(* the address.  _read_command and _write_command are closures over the    *)
(* bit computed when _set_readwriteaddr ran: a closure is the record of    *)
(* its function and its captured bit.  In this part transport holds        *)
(* _write_bit, _write_set and the two closures, and ops the transfers.     *)

\* the default of the write_bit parameter
DefaultWriteBit == 7

setter(bit) == [fn |-> "setter", bit |-> bit]
unsetter(bit) == [fn |-> "unsetter", bit |-> bit]

\* calling a closure on an address
Command(f, address) ==
    IF f.fn = "setter" THEN BitOr(address, f.bit) ELSE BitAnd(address, BitNot(f.bit))

set_readwriteaddr(t) ==
    LET bit == Pow2(t.write_bit) IN
    IF t.write_set
    THEN [t EXCEPT !.read_command = unsetter(bit), !.write_command = setter(bit)]
    ELSE [t EXCEPT !.read_command = setter(bit), !.write_command = unsetter(bit)]

\* a slip that stores the new bit and keeps the closures made for the old one
set_write_bitStale(t, val) == [t EXCEPT !.write_bit = val]

\* the write_bit and write_set property setters
set_write_bit(t, val) == set_readwriteaddr([t EXCEPT !.write_bit = val])
set_write_set(t, val) == set_readwriteaddr([t EXCEPT !.write_set = val])

\* the constructor stores _write_bit directly, then assigns write_set
SPIRegisterState_init(write_bit, write_set) ==
    set_write_set([class |-> "SPIRegisterState", write_bit |-> write_bit, write_set |-> None,
                   read_command |-> None, write_command |-> None], write_set)

\* spi.xfer and spi.xfer2: the bytes sent, and the bytes that came back
Xfer(op, data, back) == [op |-> op, data |-> data, back |-> back]

StartSPI(t) == [transport |-> t, status |-> "ok", ret |-> None, ops |-> <<>>]

\* back holds the bytes the bus returns after the command byte
SPI_read_register(st, address, ntimes, back) ==
    IF IsNone(ntimes)
    THEN [st EXCEPT
            !.ops = Append(@, Xfer("xfer", <<Command(st.transport.read_command, address), 0>>,
                                   <<0>> \o back)),
            !.ret = Some(back[1])]
    ELSE [st EXCEPT
            !.ops = Append(@, Xfer("xfer2",
                                   <<Command(st.transport.read_command, address)>>
                                       \o [i \in 1 .. Val(ntimes) |-> 0],
                                   <<0>> \o back)),
            !.ret = Some(back)]

\* value is Some(v) for an int v, and the list of words for a multi-write
SPI_write_register(st, address, value) ==
    IF Len(value) = 1
    THEN [st EXCEPT
            !.ops = Append(@, Xfer("xfer", <<Command(st.transport.write_command, address),
                                             Val(value)>>, <<0, 0>>))]
    ELSE [st EXCEPT
            !.ops = Append(@, Xfer("xfer2", <<Command(st.transport.write_command, address)>>
                                                \o value,
                                   [i \in 1 .. (Len(value) + 1) |-> 0]))]

(* The assignments and transfers as a state machine *)

WriteBits == 0 .. DefaultWriteBit
AllAddrs == 0 .. (Pow2(DefaultWriteBit + 1) - 1)
SPIAddrs == {0, 5, 130, 255}
SPIWords == {0, 255}
SPIValues == {Some(0), Some(255), <<1, 2>>}

InitSPI ==
    /\ tmpl = Template(<<>>, <<>>, 8)
    /\ built = "ok"
    /\ cache = EmptyMap
    /\ dev = EmptyMap
    /\ heap = <<>>
    /\ files = <<>>
    /\ ncalls = 0
    /\ \E write_bit \in {DefaultWriteBit, 0}, write_set \in BOOLEAN :
           transport = SPIRegisterState_init(write_bit, write_set)
    /\ call = TransportCall("none", 0, None, None)
    /\ result = "ok"
    /\ ret = None
    /\ ops = <<>>
    /\ pre = [transport |-> transport]
    /\ pc = "idle"

FinishSPI(c, st) ==
    /\ call' = c
    /\ transport' = st.transport
    /\ result' = st.status
    /\ ret' = st.ret
    /\ ops' = st.ops
    /\ pre' = [transport |-> transport]
    /\ pc' = "returned"
    /\ UNCHANGED <<tmpl, built, cache, dev, ncalls, heap, files>>

SetWriteBit ==
    /\ pc = "idle"
    /\ \E val \in WriteBits :
           FinishSPI(TransportCall("write_bit", 0, None, Some(val)),
                     [StartSPI(transport) EXCEPT !.transport = set_write_bit(@, val)])

SetWriteSet ==
    /\ pc = "idle"
    /\ \E val \in BOOLEAN :
           FinishSPI(TransportCall("write_set", 0, None, Some(val)),
                     [StartSPI(transport) EXCEPT !.transport = set_write_set(@, val)])

SPIReadRegister ==
    /\ pc = "idle"
    /\ \E address \in SPIAddrs, ntimes \in {None, Some(2)} :
       \E word \in SPIWords :
           FinishSPI(TransportCall("_read_register", address, ntimes, None),
                     SPI_read_register(StartSPI(transport), address, ntimes,
                                       IF IsNone(ntimes) THEN <<word>> ELSE <<word, 0>>))

SPIWriteRegister ==
    /\ pc = "idle"
    /\ \E address \in SPIAddrs, value \in SPIValues :
           FinishSPI(TransportCall("_write_register", address, None, value),
                     SPI_write_register(StartSPI(transport), address, value))

ReturnSPI ==
    /\ pc = "returned"
    /\ pc' = "idle"
    /\ call' = TransportCall("none", 0, None, None)
    /\ result' = "ok"
    /\ ret' = None
    /\ ops' = <<>>
    /\ pre' = [transport |-> transport]
    /\ UNCHANGED <<tmpl, built, cache, dev, ncalls, heap, files, transport>>

NextSPI ==
    \/ SetWriteBit
    \/ SetWriteSet
    \/ SPIReadRegister
    \/ SPIWriteRegister
    \/ ReturnSPI

SpecSPI == InitSPI /\ [][NextSPI]_vars

----------------------------------------------------------------------------
(* Claims *)

BitsOf(reg) == reg.offset .. (reg.offset + reg.nbits - 1)

Overlapping(t) ==
    \E i, j \in 1 .. Len(t.registers) :
        /\ i < j
        /\ t.registers[i].address = t.registers[j].address
        /\ BitsOf(t.registers[i]) \cap BitsOf(t.registers[j]) # {}

PastWord(t) ==
    \E i \in 1 .. Len(t.registers) :
        t.registers[i].offset + t.registers[i].nbits - 1 > t.register_size - 1

\* C2: construction succeeds exactly when no two fields of one address share a
\* bit and no field reaches past bit register_size - 1; otherwise it raises
\* ValueError.
C2_ConstructionValidates ==
    built # "new" =>
        /\ (built = "ok") <=> (~Overlapping(tmpl) /\ ~PastWord(tmpl))
        /\ built \in {"ok", "ValueError"}

\* a layout that overlaps within the word is refused
C2_Witness ==
    /\ built = "ValueError"
    /\ Overlapping(tmpl)
    /\ ~PastWord(tmpl)
    /\ Len(tmpl.registers) = 3

----------------------------------------------------------------------------
(* What a call did, as the caller sees it *)

Returned(op) == pc = "returned" /\ call.op = op
NonFailing == call.fail = 0

\* bit p of a word, and the bits offset .. offset + nbits - 1 as a number
Bit(word, p) == (word \div Pow2(p)) % 2
Field(word, reg) == (word \div Pow2(reg.offset)) % Pow2(reg.nbits)

AddrOf(n) == Reg(tmpl, n).address
FieldsAt(a) == {n \in FieldNames(tmpl) : AddrOf(n) = a}

\* the names in the list of the call (none for registers=None)
Listed == IF IsNone(call.registers) THEN {} ELSE Range(Val(call.registers))
PlainList == ~IsNone(call.registers) /\ Listed \subseteq FieldNames(tmpl)

\* the addresses a request is about: all of them for None, else those of the
\* listed registers and of the registers of the listed multi-registers
RequestedFields ==
    IF IsNone(call.registers) THEN FieldNames(tmpl)
    ELSE (Listed \cap FieldNames(tmpl))
         \cup UNION {Range(Multi(tmpl, m).registers) : m \in Listed \cap MultiNames(tmpl)}
RequestedAddrs == {AddrOf(n) : n \in RequestedFields}

\* the addresses a transport read covers
Covered(o) ==
    IF o.op # "read" THEN {}
    ELSE IF IsNone(o.ntimes) THEN {o.address}
    ELSE o.address .. (o.address + Val(o.ntimes) - 1)
Fetched == UNION {Covered(ops[i]) : i \in 1 .. Len(ops)}

\* C3: a field that read_state updates gets the bits offset .. offset+nbits-1
\* of the word fetched at its address, as a number: (raw & bitmask) >> offset;
\* the word 0b10110100 decodes to 5 at offset 2, width 3.
C3_DecodeIsField ==
    /\ Returned("read_state") =>
          \A n \in FieldNames(tmpl) :
              cache[n] # pre.cache[n] =>
                  /\ AddrOf(n) \in Fetched
                  /\ cache[n] = Some(Field(dev[AddrOf(n)], Reg(tmpl, n)))
    /\ Decode(RegisterValue("x", 0, 2, 3, "None"), 180) = 5

\* a field at offset 1 of width 2 is decoded from a word whose bits differ
C3_Witness ==
    /\ Returned("read_state")
    /\ \E n \in FieldNames(tmpl) :
          /\ Reg(tmpl, n).offset = 1
          /\ Reg(tmpl, n).nbits = 2
          /\ dev[AddrOf(n)] = 2
          /\ pre.cache[n] = None
          /\ cache[n] = Some(1)

\* the word that replaces, in word, the bits of every field of address a that
\* is writeable (True or None) and has a value by that value's bits
Writes(n) == Reg(tmpl, n).writeable # "False" /\ ~IsNone(pre.cache[n])
Composed(word, a) ==
    LET bit(p) ==
            IF \E n \in FieldsAt(a) : Writes(n) /\ p \in BitsOf(Reg(tmpl, n))
            THEN LET n == CHOOSE n \in FieldsAt(a) :
                              Writes(n) /\ p \in BitsOf(Reg(tmpl, n))
                 IN Bit(Val(pre.cache[n]), p - Reg(tmpl, n).offset)
            ELSE Bit(word, p)
        sum[p \in 0 .. tmpl.register_size] ==
            IF p = tmpl.register_size THEN 0 ELSE bit(p) * Pow2(p) + sum[p + 1]
    IN sum[0]

\* the values the caller assigned fit their fields
ValuesFit == \A n \in FieldNames(tmpl) :
                 IsNone(pre.cache[n]) \/ Val(pre.cache[n]) \in 0 .. Pow2(Reg(tmpl, n).nbits) - 1

WritesTo(a) == {i \in 1 .. Len(ops) : ops[i].op = "write" /\ ops[i].address = a}

\* C1 (the claim as stated): after write_state(only_update=True) the word of
\* every processed address is the baseline word with the bits of each writeable
\* (True or None) field that has a value replaced by that value.
C1_ReadModifyWrite ==
    (Returned("write_state") /\ call.only_update /\ NonFailing /\ ValuesFit
     /\ (IsNone(call.registers) \/ PlainList)) =>
        \A a \in RequestedAddrs : dev[a] = Composed(pre.dev[a], a)

\* C4 (the claim as stated): with a list of registers, update_all=True updates
\* every field of every fetched address, update_all=False only the listed ones.
C4_UpdateAll ==
    (Returned("read_state") /\ PlainList /\ call.groupread # "multi" /\ NonFailing
     /\ result = "ok") =>
        \A n \in FieldNames(tmpl) :
            LET decoded == Some(Field(dev[AddrOf(n)], Reg(tmpl, n)))
            IN IF call.update_all
               THEN AddrOf(n) \in Fetched => cache[n] = decoded
               ELSE IF n \in Listed THEN cache[n] = decoded
                    ELSE cache[n] = pre.cache[n]

\* C5 (the claim as stated): read_state() with its default arguments returns
\* normally, its map has exactly the mapped addresses as keys, and every field
\* is decoded from the returned word of its address.
C5_DefaultRead ==
    (Returned("read_state") /\ IsNone(call.registers) /\ call.groupread = "multi"
     /\ call.update_all /\ NonFailing) =>
        /\ result = "ok"
        /\ DOMAIN ret = MappedAddrs(tmpl)
        /\ \A n \in FieldNames(tmpl) :
              cache[n] = Some(Field(ret[AddrOf(n)], Reg(tmpl, n)))

\* C6 (the claim as stated): a multi-register in the list is replaced by its
\* registers, whose addresses are fetched and whose caches are updated.
C6_MultiExpanded ==
    (Returned("read_state") /\ Listed \cap MultiNames(tmpl) # {} /\ NonFailing) =>
        \A m \in Listed \cap MultiNames(tmpl) :
            \A n \in Range(Multi(tmpl, m).registers) :
                /\ AddrOf(n) \in Fetched
                /\ cache[n] = Some(Field(dev[AddrOf(n)], Reg(tmpl, n)))

SingleReads == \A i \in 1 .. Len(ops) : ops[i].op = "read" /\ IsNone(ops[i].ntimes)

\* C7: for None or a list of plain registers, groupread=False issues one
\* single-word read per distinct requested address and nothing else;
\* groupread=True issues one burst from min(addr) of max(addr)-min(addr)+1
\* words, and the returned map gives word i of the burst to address min(addr)+i.
C7_ReadShape ==
    (Returned("read_state") /\ NonFailing /\ (IsNone(call.registers) \/ PlainList)) =>
        /\ call.groupread = "False" =>
              /\ SingleReads
              /\ Len(ops) = Cardinality(RequestedAddrs)
              /\ {ops[i].address : i \in 1 .. Len(ops)} = RequestedAddrs
              /\ result = "ok"
              /\ ret = [a \in RequestedAddrs |-> dev[a]]
        /\ (call.groupread = "True" /\ RequestedAddrs # {}) =>
              LET lo == Min(RequestedAddrs)
                  hi == Max(RequestedAddrs)
              IN /\ ops = <<ReadOp(lo, Some(hi - lo + 1))>>
                 /\ result = "ok" => ret = [a \in lo .. hi |-> dev[a]]

\* a burst over three addresses whose words differ has returned
C7_Witness ==
    /\ Returned("read_state")
    /\ call.groupread = "True"
    /\ PlainList
    /\ result = "ok"
    /\ Len(ops) = 1
    /\ ops[1].ntimes = Some(2)
    /\ DOMAIN ret = {1, 2}
    /\ ret[1] # ret[2]

\* C8 (the claim as stated, for a non-empty list): with groupread='multi' no
\* address is fetched by more than one transport read, and a multi-register
\* none of whose registers is requested causes no burst and no error.
C8_MultiShape ==
    (Returned("read_state") /\ call.groupread = "multi" /\ NonFailing /\ PlainList
     /\ Listed # {}) =>
        /\ \A i, j \in 1 .. Len(ops) : i # j => Covered(ops[i]) \cap Covered(ops[j]) = {}
        /\ (\A i \in 1 .. Len(tmpl.multiregs) :
                Range(tmpl.multiregs[i].registers) \cap RequestedFields = {}) =>
              result = "ok" /\ SingleReads

\* C9 (the claim as stated): where read_state with groupread=False returns,
\* read_state with groupread='multi' on the same request and the same words
\* returns the same map and leaves the same caches.
C9_MultiEqualsSingle ==
    (Returned("read_state") /\ call.groupread = "multi" /\ NonFailing) =>
        LET single == read_state(tmpl, Start(pre.cache, pre.dev, 0), call.registers,
                                 "False", call.update_all)
        IN single.status = "ok" =>
              /\ result = "ok"
              /\ cache = single.cache
              /\ ret = single.ret

\* C10 (the claim as stated, for an object whose fields all have values): every
\* processed address gets at most one write, of the fully composed word; with
\* only_update=True it is written exactly when it differs from the baseline,
\* with only_update=False exactly once.
C10_OneWritePerAddress ==
    (Returned("write_state") /\ NonFailing /\ ValuesFit
     /\ (\A n \in FieldNames(tmpl) : ~IsNone(pre.cache[n]))
     /\ (IsNone(call.registers) \/ PlainList)) =>
        \A a \in RequestedAddrs :
            LET baseline == IF call.only_update THEN pre.dev[a] ELSE 0
                word == Composed(baseline, a)
            IN /\ Cardinality(WritesTo(a)) <= 1
               /\ \A i \in WritesTo(a) : ops[i].value = Some(word)
               /\ call.only_update => (WritesTo(a) # {} <=> word # baseline)
               /\ ~call.only_update => Cardinality(WritesTo(a)) = 1

\* the transport writes a call st issued to address a
WritesIn(st, a) == {i \in 1 .. Len(st.ops) : st.ops[i].op = "write" /\ st.ops[i].address = a}

\* C11 (the claim as stated): write_state(only_update=True), called twice with
\* unchanged field values on a transport that does not fail, returns normally
\* both times and writes each address at most once across the two calls; a
\* third call writes nothing.
C11_Idempotent ==
    (Returned("write_state") /\ call.only_update /\ NonFailing /\ ValuesFit
     /\ (IsNone(call.registers) \/ PlainList)) =>
        LET second == write_state(tmpl, Start(cache, dev, 0), call.registers, TRUE)
            third == write_state(tmpl, Start(second.cache, second.dev, 0),
                                 call.registers, TRUE)
        IN /\ result = "ok"
           /\ second.status = "ok"
           /\ \A a \in Addrs(tmpl) :
                 Cardinality(WritesTo(a)) + Cardinality(WritesIn(second, a)) <= 1
           /\ third.status = "ok"
           /\ \A a \in Addrs(tmpl) : WritesIn(third, a) = {}

\* C12 (the claim as stated): in every word write_state passes to the
\* transport, the bits of each field with writeable=False at that address are
\* the bits of the baseline word (the word read under only_update=True, 0 under
\* only_update=False), whatever the field's cached value.
C12_ReadOnlyKept ==
    (Returned("write_state") /\ (IsNone(call.registers) \/ PlainList)) =>
        \A i \in 1 .. Len(ops) :
            ops[i].op = "write" =>
                LET a == ops[i].address
                    baseline == IF call.only_update THEN pre.dev[a] ELSE 0
                IN \A n \in FieldsAt(a) :
                       Reg(tmpl, n).writeable = "False" =>
                           Field(Val(ops[i].value), Reg(tmpl, n))
                               = Field(baseline, Reg(tmpl, n))

\* a field of address a that write_state writes and whose writeable is None
HasReadBack(a) ==
    \E n \in FieldsAt(a) : Reg(tmpl, n).writeable = "None" /\ ~IsNone(pre.cache[n])

IsWrite(i, a) == ops[i].op = "write" /\ ops[i].address = a

\* C13: a transport write to an address where a written field has
\* writeable=None is followed, with nothing but writes to that address in
\* between, by one single-word read of that address, and the fields of the
\* address with writeable False or None then hold the bits of the word read
\* back; no other read is issued and no other cache changes.
C13_ReadBack ==
    (Returned("write_state") /\ NonFailing /\ (IsNone(call.registers) \/ PlainList)) =>
        /\ \A i \in 1 .. Len(ops) :
              ops[i].op = "read" =>
                  /\ IsNone(ops[i].ntimes)
                  /\ HasReadBack(ops[i].address)
                  /\ i > 1
                  /\ IsWrite(i - 1, ops[i].address)
        /\ \A i \in 1 .. Len(ops) :
              (ops[i].op = "write" /\ HasReadBack(ops[i].address)) =>
                  \E j \in (i + 1) .. Len(ops) :
                      /\ ops[j] = ReadOp(ops[i].address, None)
                      /\ \A k \in (i + 1) .. (j - 1) : IsWrite(k, ops[i].address)
        /\ \A n \in FieldNames(tmpl) :
              IF /\ HasReadBack(AddrOf(n))
                 /\ WritesTo(AddrOf(n)) # {}
                 /\ Reg(tmpl, n).writeable # "True"
              THEN cache[n] = Some(Field(dev[AddrOf(n)], Reg(tmpl, n)))
              ELSE cache[n] = pre.cache[n]

\* a read-only field beside a written field of unspecified writeability got a
\* new value from the read-back
C13_Witness ==
    /\ Returned("write_state")
    /\ result = "ok"
    /\ ValuesFit
    /\ Len(ops) = 2
    /\ ops[1].op = "write"
    /\ ops[2] = ReadOp(ops[1].address, None)
    /\ \E n \in FieldsAt(ops[1].address) :
          /\ Reg(tmpl, n).writeable = "False"
          /\ cache[n] # pre.cache[n]

\* the transport operations of the call that succeeded: all but the last of a
\* call whose transport failed
Succeeded == IF call.fail = 0 THEN 1 .. Len(ops) ELSE 1 .. (Len(ops) - 1)

\* C14: when the transport fails during read_state or write_state, the call
\* raises the transport's error, the failing operation is the last one the call
\* issues and is issued once, and the caches and words that differ from those
\* before the call were set by the operations that succeeded before it.
C14_FailurePropagates ==
    (pc = "returned" /\ call.op \in {"read_state", "write_state"} /\ call.fail # 0) =>
        /\ result = "TransportError"
        /\ Len(ops) = call.fail
        /\ \A n \in FieldNames(tmpl) :
              cache[n] # pre.cache[n] =>
                  /\ \E i \in Succeeded : ops[i].op = "read" /\ AddrOf(n) \in Covered(ops[i])
                  /\ cache[n] = Some(Field(dev[AddrOf(n)], Reg(tmpl, n)))
        /\ \A a \in Addrs(tmpl) :
              dev[a] # pre.dev[a] =>
                  /\ \E i \in Succeeded : IsWrite(i, a)
                  /\ LET last == Max({i \in Succeeded : IsWrite(i, a)})
                     IN dev[a] = Val(ops[last].value)

\* the burst of a multi-register failed after the discrete reads had updated a
\* cache
C14_Witness ==
    /\ Returned("read_state")
    /\ call.groupread = "multi"
    /\ call.fail = 2
    /\ result = "TransportError"
    /\ Len(ops) = 2
    /\ ~IsNone(ops[2].ntimes)
    /\ \E n \in FieldNames(tmpl) : cache[n] # pre.cache[n]

\* C18 (the claim as stated): assigning v to a field of width w succeeds and
\* the value then reads v when 0 <= v <= 2^w - 1; for v < 0 and for v >= 2^w it
\* raises ValueError and the cached value stays what it was.
C18_SetValueRange ==
    Returned("set_value") =>
        LET w == Reg(tmpl, call.name).nbits
        IN IF 0 <= call.value /\ call.value <= Pow2(w) - 1
           THEN result = "ok" /\ cache[call.name] = Some(call.value)
           ELSE result = "ValueError" /\ cache[call.name] = pre.cache[call.name]

----------------------------------------------------------------------------
(* Claims about the objects of several RegisterStates *)

\* the caller's own objects, as maps by name
TemplateFile(t) ==
    [name_to_reg |-> [n \in FieldNames(t) |-> IndexOf(t, n)],
     name_to_multireg |->
         [m \in MultiNames(t) |->
             Len(t.registers) + (CHOOSE i \in 1 .. Len(t.multiregs) : t.multiregs[i].name = m)]]

\* the objects a RegisterState (or the template) holds
ObjectsOf(f) ==
    {f.name_to_reg[n] : n \in DOMAIN f.name_to_reg}
        \cup {f.name_to_multireg[m] : m \in DOMAIN f.name_to_multireg}

ReturnedOn(op) == pc = "returned" /\ call.op = op

\* C15: RegisterStates constructed from one template hold objects of their
\* own, and a read_state, write_state or value assignment on one of them leaves
\* the cached values of the others and of the template's registers unchanged.
C15_NoSharedState ==
    /\ \A k \in 1 .. Len(files) :
          /\ ObjectsOf(files[k]) \cap ObjectsOf(TemplateFile(tmpl)) = {}
          /\ \A j \in 1 .. Len(files) :
                j # k => ObjectsOf(files[k]) \cap ObjectsOf(files[j]) = {}
    /\ (pc = "returned" /\ call.op \in {"read_state", "write_state", "set_value"}) =>
          /\ \A k \in 1 .. Len(files) :
                k # call.file => CacheOf(heap, files[k]) = CacheOf(pre.heap, files[k])
          /\ CacheOf(heap, TemplateFile(tmpl)) = CacheOf(pre.heap, TemplateFile(tmpl))

\* a read_state on the first of two RegisterStates gave it values that the
\* second and the template do not have
C15_Witness ==
    /\ ReturnedOn("read_state")
    /\ call.file = 1
    /\ Len(files) = 2
    /\ result = "ok"
    /\ \E n \in FieldNames(tmpl) :
          /\ ~IsNone(pre.heap[files[1].name_to_reg[n]].value)
          /\ CacheOf(heap, files[1])[n] # CacheOf(pre.heap, files[1])[n]
          /\ CacheOf(heap, files[2])[n] = CacheOf(pre.heap, files[1])[n]
          /\ CacheOf(heap, TemplateFile(tmpl))[n] = CacheOf(pre.heap, files[1])[n]

\* the sum of the widths of the registers before the j-th of names
ShiftOf(t, names, j) ==
    LET w[i \in 0 .. Len(names)] ==
            IF i = 0 THEN 0 ELSE w[i - 1] + Reg(t, names[i]).nbits
    IN w[j - 1]

\* the values c of the registers names, each in 0 .. 2^nbits - 1, put side by
\* side with the first in the lowest bits
Concatenated(t, c, names) ==
    LET sum[j \in 0 .. Len(names)] ==
            IF j = 0 THEN 0
            ELSE sum[j - 1] + Val(c[names[j]]) * Pow2(ShiftOf(t, names, j))
    IN sum[Len(names)]

\* C16: the registers of every multi-register of a RegisterState are that
\* RegisterState's own registers of the same names, those of the template's
\* multi-register are still the template's, and after a read_state that
\* updated the registers the multi-register got through get_register has the
\* LSB-first concatenation of the RegisterState's cached values as its value.
C16_OwnConstituents ==
    /\ \A k \in 1 .. Len(files) :
          \A m \in DOMAIN files[k].name_to_multireg :
              LET names == Multi(tmpl, m).registers
              IN heap[files[k].name_to_multireg[m]].registers
                     = [j \in 1 .. Len(names) |-> files[k].name_to_reg[names[j]]]
    /\ \A m \in MultiNames(tmpl) :
          LET names == Multi(tmpl, m).registers
          IN heap[TemplateFile(tmpl).name_to_multireg[m]].registers
                 = [j \in 1 .. Len(names) |-> IndexOf(tmpl, names[j])]
    /\ (ReturnedOn("read_state") /\ result = "ok") =>
          \A m \in MultiNames(tmpl) :
              get_value(tmpl, heap, Val(get_register(files[call.file], m)))
                  = [status |-> "ok",
                     val |-> Some(Concatenated(tmpl, CacheOf(heap, files[call.file]),
                                               Multi(tmpl, m).registers))]

\* after a read_state the multi-register of the RegisterState has a value
\* that the template's multi-register, all of whose registers have values,
\* does not have
C16_Witness ==
    /\ ReturnedOn("read_state")
    /\ result = "ok"
    /\ \E m \in MultiNames(tmpl) :
          LET own == get_value(tmpl, heap, Val(get_register(files[call.file], m)))
              theirs == get_value(tmpl, heap, TemplateFile(tmpl).name_to_multireg[m])
          IN /\ own.status = "ok"
             /\ theirs.status = "ok"
             /\ own.val # theirs.val
             /\ Val(own.val) >= Pow2(Reg(tmpl, Multi(tmpl, m).registers[1]).nbits)

\* the registers names of the multi-register m of the RegisterState the call
\* was on, with their cached values
OwnValue(names, j) == CacheOf(heap, files[call.file])[names[j]]

\* C17: the value of a multi-register is the bitwise OR of its registers'
\* cached values, register k shifted left by the sum of the widths of the
\* registers before it (the sum of the shifted values when they fit their
\* widths; 0x34 then 0x12, both of width 8, give 0x1234); reading it raises
\* when a register has no value.
C17_MultiValue ==
    /\ (ReturnedOn("get_value") /\ call.name \in MultiNames(tmpl)) =>
          LET names == Multi(tmpl, call.name).registers
              J == 1 .. Len(names)
              fit == \A j \in J : Val(OwnValue(names, j)) \in
                                      0 .. Pow2(Reg(tmpl, names[j]).nbits) - 1
              v == Val(ret.value)
          IN IF \E j \in J : IsNone(OwnValue(names, j))
             THEN result = "TypeError"
             ELSE /\ result = "ok"
                  /\ \A p \in 0 .. ShiftOf(tmpl, names, Len(names) + 1) :
                        Bit(v, p) = 1 <=>
                            \E j \in J :
                                /\ p >= ShiftOf(tmpl, names, j)
                                /\ Bit(Val(OwnValue(names, j)),
                                       p - ShiftOf(tmpl, names, j)) = 1
                  /\ v < 0 <=> \E j \in J : Val(OwnValue(names, j)) < 0
                  /\ fit => v = Concatenated(tmpl, CacheOf(heap, files[call.file]), names)
    /\ multi_value([status |-> "ok", val |-> 0, bitsdone |-> 0],
                   <<[value |-> Some(52), nbits |-> 8], [value |-> Some(18), nbits |-> 8]>>).val
           = 4660

\* a multi-register whose second register is not 0 was read
C17_Witness ==
    /\ ReturnedOn("get_value")
    /\ call.name \in MultiNames(tmpl)
    /\ result = "ok"
    /\ LET names == Multi(tmpl, call.name).registers
       IN /\ Val(OwnValue(names, 1)) > 0
          /\ Val(OwnValue(names, 2)) > 0
          /\ Val(ret.value) = Val(OwnValue(names, 1))
                                + Val(OwnValue(names, 2)) * Pow2(Reg(tmpl, names[1]).nbits)

\* C19: assigning a value to a multi-register got through get_register raises
\* NotImplementedError, whatever the value, and changes no object.
C19_MultiNotSettable ==
    (ReturnedOn("set_value") /\ call.name \in MultiNames(tmpl)) =>
        /\ result = "NotImplementedError"
        /\ heap = pre.heap
        /\ CacheOf(heap, files[call.file]) = CacheOf(pre.heap, files[call.file])

\* the assignment of a value that the first register of the multi-register
\* does not have was refused
C19_Witness ==
    /\ ReturnedOn("set_value")
    /\ call.name \in MultiNames(tmpl)
    /\ result = "NotImplementedError"
    /\ LET names == Multi(tmpl, call.name).registers
       IN /\ ~IsNone(OwnValue(names, 1))
          /\ Val(OwnValue(names, 1)) # call.value

\* the offsets of the registers ids, in order
Offsets(ids) == [i \in 1 .. Len(ids) |-> Reg(tmpl, heap[ids[i]].name).offset]

\* C20: get_register(name) gives the RegisterState's multi-register of that
\* name if it has one, else its register of that name, else raises KeyError;
\* get_registers_at_address(address) gives the RegisterState's registers of
\* that address by ascending offset, and raises KeyError for an address
\* without registers; neither changes a cached value.
C20_Lookups ==
    /\ ReturnedOn("get_value") =>
          /\ IF call.name \in MultiNames(tmpl)
             THEN /\ result # "KeyError"
                  /\ ret.object = files[call.file].name_to_multireg[call.name]
                  /\ heap[ret.object].class = "MultiRegisterValue"
             ELSE IF call.name \in FieldNames(tmpl)
             THEN /\ result = "ok"
                  /\ ret.object = files[call.file].name_to_reg[call.name]
                  /\ heap[ret.object].class = "RegisterValue"
                  /\ ret.value = heap[ret.object].value
             ELSE result = "KeyError"
          /\ heap = pre.heap
          /\ dev = pre.dev
    /\ ReturnedOn("get_registers_at_address") =>
          /\ IF FieldsAt(call.address) = {}
             THEN result = "KeyError"
             ELSE /\ result = "ok"
                  /\ Len(ret) = Cardinality(FieldsAt(call.address))
                  /\ Range(ret) = {files[call.file].name_to_reg[n] :
                                      n \in FieldsAt(call.address)}
                  /\ \A i, j \in 1 .. Len(ret) :
                        i < j => Offsets(ret)[i] < Offsets(ret)[j]
          /\ heap = pre.heap
          /\ dev = pre.dev

\* a name that a register and a multi-register share gave the multi-register
C20_Witness ==
    /\ ReturnedOn("get_value")
    /\ call.name \in MultiNames(tmpl) \cap FieldNames(tmpl)
    /\ result = "ok"
    /\ heap[ret.object].class = "MultiRegisterValue"

\* a step that constructs a RegisterState, and the one it constructs
Constructs == Len(files') = Len(files) + 1
Constructed == files'[Len(files')]

\* no register of a RegisterState that has a value loses it in the step
StaysCached ==
    \A k \in 1 .. Len(files) :
        \A n \in FieldNames(tmpl) :
            ~IsNone(CacheOf(heap, files[k])[n]) => ~IsNone(CacheOf(heap', files[k])[n])

\* a read_state that returns has decoded every register of its RegisterState
DecodeCaches ==
    (pc' = "returned" /\ call'.op = "read_state" /\ result' = "ok") =>
        \A n \in FieldNames(tmpl) : ~IsNone(CacheOf(heap', files[call'.file])[n])

\* C21 (the claim as stated): every register of a RegisterState is unset right
\* after its construction, read_state gives it a value, and no read_state,
\* write_state or assignment takes a value away.
C21_UnsetAtConstruction ==
    [][/\ Constructs =>
             \A n \in FieldNames(tmpl) : IsNone(CacheOf(heap', Constructed)[n])
       /\ DecodeCaches
       /\ StaysCached]_vars

\* C21 (amended): right after its construction every register of a
\* RegisterState has the value the template's register has at that moment,
\* unset only if that one is; read_state gives it a value, and no read_state,
\* write_state or assignment takes a value away.
C21_FieldLifecycle ==
    [][/\ Constructs =>
             CacheOf(heap', Constructed) = CacheOf(heap, TemplateFile(tmpl))
       /\ DecodeCaches
       /\ StaysCached]_vars

\* a RegisterState was constructed from a template one of whose registers had
\* a value and another had none, and nothing was called since
C21_Witness ==
    /\ Len(files) = 1
    /\ ncalls = 0
    /\ \E n, o \in FieldNames(tmpl) :
          /\ ~IsNone(CacheOf(heap, files[1])[n])
          /\ IsNone(CacheOf(heap, files[1])[o])

----------------------------------------------------------------------------
(* Claims about the values read_state and write_state leave in the caches *)

InRange(n, v) == ~IsNone(v) /\ Val(v) \in 0 .. Pow2(Reg(tmpl, n).nbits) - 1
Fits(c) == \A n \in FieldNames(tmpl) : IsNone(c[n]) \/ InRange(n, c[n])

\* C24: every word read_state and write_state fetch decodes to a value in
\* 0 .. 2^nbits - 1 for each field of its address, so that the setter's
\* ValueError is not raised (the only ValueError is min() of no address, under
\* groupread 'multi' or an empty list); every value they store is in that
\* range, and cached values that were all unset or in range before the call
\* are so after it.
C24_ValuesInRange ==
    (pc = "returned" /\ call.op \in {"read_state", "write_state"}) =>
        /\ \A n \in FieldNames(tmpl) :
              AddrOf(n) \in Fetched =>
                  InRange(n, Some(Decode(Reg(tmpl, n), dev[AddrOf(n)])))
        /\ (call.op = "write_state" \/ (call.groupread # "multi" /\ RequestedAddrs # {})) =>
              result # "ValueError"
        /\ \A n \in FieldNames(tmpl) : cache[n] # pre.cache[n] => InRange(n, cache[n])
        /\ Fits(pre.cache) => Fits(cache)

\* a read_state stored the largest value of a field of two bits that is not
\* at offset 0
C24_Witness ==
    /\ Returned("read_state")
    /\ result = "ok"
    /\ \E n \in FieldNames(tmpl) :
          /\ Reg(tmpl, n).nbits = 2
          /\ Reg(tmpl, n).offset > 0
          /\ cache[n] = Some(3)
          /\ pre.cache[n] # cache[n]

\* the addresses between the lowest and the highest requested one
Span == Min(RequestedAddrs) .. Max(RequestedAddrs)

\* C25 (the claim as stated): read_state with groupread=True over a span that
\* holds an address without fields returns normally, the fields of the span's
\* addresses that the call is to update are decoded from their words, the
\* words of all the span's addresses are in the returned map, and no other
\* cache changes.
C25_BurstOverGap ==
    (Returned("read_state") /\ call.groupread = "True" /\ NonFailing
     /\ (IsNone(call.registers) \/ PlainList) /\ RequestedAddrs # {}
     /\ Span \ MappedAddrs(tmpl) # {}) =>
        /\ result = "ok"
        /\ ret = [a \in Span |-> dev[a]]
        /\ \A n \in FieldNames(tmpl) :
              IF n \in RequestedFields
              THEN cache[n] = Some(Field(dev[AddrOf(n)], Reg(tmpl, n)))
              ELSE AddrOf(n) \notin Span => cache[n] = pre.cache[n]

\* C26: when a transport read fails during read_state with groupread False
\* or True, the call raises and every cache is as it was before the call, also
\* those of the addresses read before the failure.
C26_FetchBeforeDecode ==
    (Returned("read_state") /\ call.groupread # "multi" /\ call.fail # 0) =>
        /\ result = "TransportError"
        /\ cache = pre.cache

\* the second of the single reads failed, the first had fetched the word of
\* an address whose fields had no values
C26_Witness ==
    /\ Returned("read_state")
    /\ call.groupread = "False"
    /\ call.fail = 2
    /\ Len(ops) = 2
    /\ result = "TransportError"
    /\ \A n \in FieldsAt(ops[1].address) : IsNone(cache[n])
    /\ FieldsAt(ops[1].address) \cap RequestedFields # {}

\* C27: write_state changes the cached value of no field with writeable=True;
\* the caches it changes are those of fields with writeable False or None at
\* an address that has a field with writeable=None and a value, and that the
\* call has read back.
C27_WriteFrame ==
    Returned("write_state") =>
        \A n \in FieldNames(tmpl) :
            cache[n] # pre.cache[n] =>
                /\ Reg(tmpl, n).writeable # "True"
                /\ HasReadBack(AddrOf(n))
                /\ \E i \in Succeeded : ops[i] = ReadOp(AddrOf(n), None)
                /\ cache[n] = Some(Field(dev[AddrOf(n)], Reg(tmpl, n)))

\* the read-back gave the written field of unspecified writeability itself a
\* new value (it held a negative one)
C27_Witness ==
    /\ Returned("write_state")
    /\ result = "ok"
    /\ \E n \in FieldNames(tmpl) :
          /\ Reg(tmpl, n).writeable = "None"
          /\ ~IsNone(pre.cache[n])
          /\ cache[n] # pre.cache[n]

----------------------------------------------------------------------------
(* Claims about the transports *)

\* the word a _read_register(a) made now would return, None if it raises
ReadNow(a) == File_read_register(StartFile(transport, dev), a, None).ret

\* the file was opened for writing during the call
WroteFile == \E i \in 1 .. Len(ops) : ops[i].op = "write"

\* C22: for a FileRegisterState with update=True and outfn unset, a
\* _write_register(a, v) returns normally and is written to the file during the
\* access, so that a following _read_register(a), which reads the file again,
\* returns v.
C22_WriteThroughFile ==
    (Returned("_write_register") /\ transport.update /\ IsNone(transport.outfn)) =>
        /\ result = "ok"
        /\ WroteFile
        /\ ReadNow(call.address) = Some(call.value)

\* the command byte of the transfer the call made
Sent == ops[1].data[1]

\* C23: for an SPIRegisterState, after construction and after any assignments
\* to write_bit and write_set, for every address a: the write command is a with
\* bit write_bit set and the read command a with that bit cleared when write_set
\* is true, the other way round when it is false, and every other bit of a is
\* unchanged in both; a transfer sends the command of its kind.
C23_Commands ==
    /\ \A a \in AllAddrs :
         LET w == Command(transport.write_command, a)
             r == Command(transport.read_command, a)
         IN /\ w \in AllAddrs
            /\ r \in AllAddrs
            /\ \A p \in WriteBits \ {transport.write_bit} :
                   Bit(w, p) = Bit(a, p) /\ Bit(r, p) = Bit(a, p)
            /\ Bit(w, transport.write_bit) = (IF transport.write_set THEN 1 ELSE 0)
            /\ Bit(r, transport.write_bit) = (IF transport.write_set THEN 0 ELSE 1)
    /\ Returned("_read_register") => Sent = Command(transport.read_command, call.address)
    /\ Returned("_write_register") => Sent = Command(transport.write_command, call.address)

\* write_bit was assigned a new bit while write_set is false: reads of address 5
\* now carry bit 3, writes of address 255 have it cleared
C23_Witness ==
    /\ Returned("write_bit")
    /\ pre.transport.write_bit # transport.write_bit
    /\ ~transport.write_set
    /\ transport.write_bit = 3
    /\ Command(transport.read_command, 5) = 13
    /\ Command(transport.write_command, 255) = 247

====
